---- MODULE Spec2Model ----
(***************************************************************************)
(* A model of the Home component of src/app/page.tsx: the credential list, *)
(* the five query slots, the per-slot run (processQuestion), the run-all   *)
(* join (handleSubmitAll) and the continuation that runs when the call to  *)
(* the generative-language service returns.                                *)
(*                                                                         *)
(* Strings that the code trims or pattern-matches are sequences of tokens: *)
(* the token WS is one whitespace character, every other token is a run of *)
(* non-whitespace characters.  Handlers run to completion (JavaScript is   *)
(* single-threaded); the only suspension point is the await of line 113.   *)
(* React re-renders after every handler, so the guards of the rendered     *)
(* controls are evaluated on the current state.                            *)
(***************************************************************************)
EXTENDS Integers, Sequences, FiniteSets, TLC

VARIABLES apiKeys, selectedApiKey, questions, calls, submits, edits, lastOp

vars == <<apiKeys, selectedApiKey, questions, calls, submits, edits, lastOp>>

---------------------------------------------------------------------------
(* Bounds of the model *)

\* The number of calls to the service plus the number of edits of a
\* question text in one run of the model.
MaxOps == 3

---------------------------------------------------------------------------
(* Strings *)

WS == " "
EmptyString == << >>

RECURSIVE trimStart(_)
trimStart(s) ==
  IF s = << >> THEN s
  ELSE IF Head(s) = WS THEN trimStart(Tail(s)) ELSE s

RECURSIVE trimEnd(_)
trimEnd(s) ==
  IF s = << >> THEN s
  ELSE IF s[Len(s)] = WS THEN trimEnd(SubSeq(s, 1, Len(s) - 1)) ELSE s

trim(s) == trimEnd(trimStart(s))

includes(seq, x) == \E n \in 1..Len(seq) : seq[n] = x

filter(seq, x) == SelectSeq(seq, LAMBDA key : key # x)

---------------------------------------------------------------------------
(* Values of the slots' result and error fields *)

NumSlots == 5
Slots == 0..(NumSlots - 1)

BookInfoFields ==
  {"title", "author", "publisher", "publicationYear", "genre", "language"}

NoResult == [t |-> "null", fields |-> {}]
NoError == [t |-> "null", v |-> ""]
Message(m) == [t |-> "string", v |-> m]

\* The two message literals of lines 97 and 126 (Korean in the source; the
\* model keeps an ASCII rendering of each).
ValidationMessage == "API key and question are both required"
FallbackMessage == "unknown error"

\* The text slot 0 starts with (line 63).
InitialQuestion == <<"q0">>

QuestionResult(q) ==
  [question |-> q, result |-> NoResult, error |-> NoError, isLoading |-> FALSE]

---------------------------------------------------------------------------
(* The prompt and the response text *)

\* The second argument of String.prototype.replace is a replacement
\* pattern: in it two dollar signs stand for one dollar sign and a dollar
\* sign followed by an ampersand stands for the matched text; every other
\* token of the texts of the model stands for itself.
PLACEHOLDER == "{user_prompt}"
replacement(text) ==
  [n \in 1..Len(text) |->
     CASE text[n] = "$$" -> "$"
       [] text[n] = "$&" -> PLACEHOLDER
       [] OTHER -> text[n]]

\* PROMPT_TEMPLATE.replace("{user_prompt}", question): the template text
\* before its one placeholder, the replacement, the template text after it.
FinalPrompt(question) ==
  <<"PROMPT_HEAD">> \o replacement(question) \o <<"PROMPT_TAIL">>

\* Tokens of a response text: FENCE is three backticks, TAG the letters
\* json; the remaining tokens are texts that JSON.parse reads as one value
\* (OBJ6: an object with the six fields, OBJ5: an object without language,
\* NULL: the literal null, NUM: a number, ARR: an array) or does not read
\* at all (PROSE).
FENCE == "FENCE"
TAG == "json"

\* The replace of line 118, whose pattern has two alternatives: a fence
\* followed at once by the tag, at the start of the text; a fence at the end
\* of the text.  Every match is deleted.
stripFences(s) ==
  LET lead == Len(s) >= 2 /\ s[1] = FENCE /\ s[2] = TAG
      a == IF lead THEN SubSeq(s, 3, Len(s)) ELSE s
      trail == Len(a) >= 1 /\ a[Len(a)] = FENCE
  IN  IF trail THEN SubSeq(a, 1, Len(a) - 1) ELSE a

cleanJsonStr(responseText) == trim(stripFences(trim(responseText)))

JsonValue(tok) ==
  CASE tok = "OBJ6" -> [t |-> "object", fields |-> BookInfoFields]
    [] tok = "OBJ5" -> [t |-> "object", fields |-> BookInfoFields \ {"language"}]
    [] tok = "NULL" -> [t |-> "null", fields |-> {}]
    [] tok = "NUM" -> [t |-> "number", fields |-> {}]
    [] tok = "ARR" -> [t |-> "array", fields |-> {}]

JsonTokens == {"OBJ6", "OBJ5", "NULL", "NUM", "ARR"}

SyntaxErrorMessage == "Unexpected token"

\* JSON.parse giving an object without fields for a text it cannot read.
JSONparseDefaulting(text) ==
  LET body == trim(text)
  IN  IF Len(body) = 1 /\ body[1] \in JsonTokens
        THEN [ok |-> TRUE, data |-> JsonValue(body[1]), message |-> ""]
        ELSE [ok |-> TRUE, data |-> [t |-> "object", fields |-> {}],
              message |-> ""]

\* JSON.parse(text): the value when the text is one JSON value (whitespace
\* around it allowed), a thrown SyntaxError otherwise.
JSONparse(text) ==
  LET body == trim(text)
  IN  IF Len(body) = 1 /\ body[1] \in JsonTokens
        THEN [ok |-> TRUE, data |-> JsonValue(body[1]), message |-> ""]
        ELSE [ok |-> FALSE, data |-> NoResult, message |-> SyntaxErrorMessage]

---------------------------------------------------------------------------
(* The generative-language service *)

\* The inputs the model draws from.  Every use of a question trims it, so
\* the text of one whitespace stands for the empty text too.
RawKeys == {EmptyString, <<WS>>, <<"k1">>, <<WS, "k1", WS>>, <<"k2">>}
QuestionTexts == {<<WS>>, <<"qA">>}

\* The question texts of ParseSpec: one more, with a replacement pattern.
PromptTexts == QuestionTexts \cup {<<"qB", WS, "$$">>}

\* The slots whose text the model edits; the other slots stay empty.
EditedSlots == {0, 2}

\* The service accepts k1 and rejects every other credential.
AcceptedKeys == {<<"k1">>}

ResponseTexts ==
  { <<"OBJ6">>,
    <<FENCE, TAG, WS, "OBJ6", WS, FENCE>>,
    <<FENCE, WS, "OBJ6", WS, FENCE>>,
    <<"PROSE">>,
    <<"NULL">> }

\* The response texts of ResponseTexts and more of each kind: an object in
\* and out of fences, texts that are no JSON value, JSON values that are no
\* six-field object.
ParseTexts ==
  ResponseTexts \cup
  { <<WS, "OBJ6", WS>>,
    <<FENCE, TAG, "OBJ6", FENCE>>,
    <<WS, FENCE, TAG, WS, "OBJ6", WS, FENCE, WS>>,
    <<FENCE, "OBJ6", FENCE>>,
    EmptyString,
    <<"OBJ6", WS, "PROSE">>,
    <<"PROSE", WS, "OBJ6">>,
    <<FENCE, TAG, WS, "PROSE", WS, FENCE>>,
    <<"OBJ6", WS, FENCE>>,
    <<"OBJ5">>,
    <<"NUM">>,
    <<"ARR">>,
    <<FENCE, TAG, WS, "NULL", WS, FENCE>> }

Response(text) == [kind |-> "response", text |-> text, message |-> ""]
ThrowError(m) == [kind |-> "throwError", text |-> EmptyString, message |-> m]
ThrowOther == [kind |-> "throwOther", text |-> EmptyString, message |-> ""]

AuthErrorMessage == "API key not valid"
\* The message of an Error made without one.
EmptyMessage == ""

\* What the await of line 113 and the text() of line 114 can produce for a
\* request made with this credential: a response text, a thrown Error (its
\* message may be empty), or a thrown value that is no Error.
UpstreamOutcomes(key) ==
  IF key \in AcceptedKeys
    THEN {Response(text) : text \in ParseTexts}
           \cup {ThrowOther, ThrowError(EmptyMessage)}
    ELSE {ThrowError(AuthErrorMessage)}

\* The outcomes the calls of Spec end with.
AllOutcomes ==
  {Response(text) : text \in ResponseTexts}
    \cup {ThrowOther, ThrowError(AuthErrorMessage)}

\* The outcomes the calls of ParseSpec end with.
ParseOutcomes == UNION {UpstreamOutcomes(key) : key \in RawKeys}

\* The inputs of the credential handlers in KeySpec.
KeyInputs ==
  {EmptyString, <<"k1">>, <<WS, "k1">>, <<"k2">>, <<"k3">>}

---------------------------------------------------------------------------
(* The handlers *)

\* lastOp: the handler that ran last, the slot it ran on and the branch it
\* took.
Op(op, index, branch) == [op |-> op, index |-> index, branch |-> branch]

\* Lines 70-78 with the membership test of line 71 made on the untrimmed
\* input.
handleAddApiKeyRawTest(keys, selected, newApiKey) ==
  IF trim(newApiKey) # EmptyString /\ ~includes(keys, newApiKey)
    THEN [apiKeys |-> Append(keys, trim(newApiKey)),
          selectedApiKey |-> trim(newApiKey), added |-> TRUE]
    ELSE [apiKeys |-> keys, selectedApiKey |-> selected, added |-> FALSE]

\* handleAddApiKey, lines 70-78.
handleAddApiKey(keys, selected, newApiKey) ==
  IF trim(newApiKey) # EmptyString /\ ~includes(keys, trim(newApiKey))
    THEN [apiKeys |-> Append(keys, trim(newApiKey)),
          selectedApiKey |-> trim(newApiKey), added |-> TRUE]
    ELSE [apiKeys |-> keys, selectedApiKey |-> selected, added |-> FALSE]

\* updatedKeys[0] || "" of line 84.
firstOrEmpty(keys) == IF Len(keys) > 0 THEN keys[1] ELSE EmptyString

\* Lines 80-86 with the last remaining credential selected at line 84.
handleDeleteApiKeyLast(keys, selected, keyToDelete) ==
  LET updatedKeys == filter(keys, keyToDelete)
  IN  [apiKeys |-> updatedKeys,
       selectedApiKey |-> IF selected = keyToDelete
                            THEN IF Len(updatedKeys) > 0
                                   THEN updatedKeys[Len(updatedKeys)]
                                   ELSE EmptyString
                            ELSE selected]

\* Lines 80-82, without the selection of lines 83-85.
handleDeleteApiKeyStale(keys, selected, keyToDelete) ==
  [apiKeys |-> filter(keys, keyToDelete), selectedApiKey |-> selected]

\* handleDeleteApiKey, lines 80-86.
handleDeleteApiKey(keys, selected, keyToDelete) ==
  LET updatedKeys == filter(keys, keyToDelete)
  IN  [apiKeys |-> updatedKeys,
       selectedApiKey |-> IF selected = keyToDelete
                            THEN firstOrEmpty(updatedKeys) ELSE selected]

\* Lines 88-92 with the slot's outcome of an earlier run cleared.
updateQuestionClearing(qs, index, question) ==
  [qs EXCEPT ![index] = [@ EXCEPT !.question = question,
                                  !.result = NoResult, !.error = NoError]]

\* updateQuestion, lines 88-92.
updateQuestion(qs, index, question) ==
  [qs EXCEPT ![index].question = question]

\* Line 95 without its test of the credential.
preconditionFailsQuestionOnly(selected, slot) ==
  trim(slot.question) = EmptyString

\* The precondition check of line 95.
preconditionFails(selected, slot) ==
  trim(selected) = EmptyString \/ trim(slot.question) = EmptyString

\* Lines 96-98: the slot as the failed precondition check leaves it.
rejectSlot(slot) == [slot EXCEPT !.error = Message(ValidationMessage)]

\* Lines 102-105 without lines 104 and 105.
startSlotKeepOutcome(slot) == [slot EXCEPT !.isLoading = TRUE]

\* Lines 102-105: the slot as the start of a run leaves it.
startSlot(slot) ==
  [slot EXCEPT !.isLoading = TRUE, !.result = NoResult, !.error = NoError]

\* The request made with whatever credential is selected when it is served.
requestKeyLive(atStart, now) == now

\* The credential the request of lines 109-113 is made with: the
\* selectedApiKey of the render whose handler started the run.
requestKey(atStart, now) == atStart

\* A copy of the objects too: what the run reads is the slot as it was when
\* the copy was made.
elementCopied(copied, live, i) == copied[i]

\* newQuestions = [...questions] copies the array and not the objects in
\* it: element i of the copy is the object that element i of the state is,
\* so what a run reads through its copy after the await is the live slot.
element(copied, live, i) == live[i]

\* processQuestion up to its await, lines 94-113.  w holds the slots and the
\* calls made so far; promise is 0 for a run that returned at line 99 (its
\* promise is fulfilled at once) and the number of the call otherwise.
processQuestion(w, selected, index) ==
  IF preconditionFails(selected, w.questions[index])
    THEN [questions |-> [w.questions EXCEPT ![index] = rejectSlot(@)],
          calls |-> w.calls,
          promise |-> 0]
    ELSE LET newQuestions == [w.questions EXCEPT ![index] = startSlot(@)]
         IN  [questions |-> newQuestions,
              calls |-> Append(w.calls,
                         [index |-> index,
                          key |-> selected,
                          prompt |-> FinalPrompt(w.questions[index].question),
                          newQuestions |-> newQuestions,
                          state |-> "pending",
                          ended |-> ""]),
              promise |-> Len(w.calls) + 1]

\* Lines 124-126: the message the catch block stores.
caughtMessage(outcome) ==
  IF outcome.kind = "throwError" THEN outcome.message ELSE FallbackMessage

\* Lines 114-130 without the catch block: a failure leaves the error as it
\* was and rejects the promise of the run.
continuationUncaught(slot, outcome) ==
  LET parsed == JSONparse(cleanJsonStr(outcome.text))
      failed == outcome.kind # "response" \/ ~parsed.ok
      done == IF failed THEN slot
              ELSE [slot EXCEPT !.result = parsed.data, !.error = NoError]
  IN  [slot |-> [done EXCEPT !.isLoading = FALSE],
       state |-> IF failed THEN "rejected" ELSE "fulfilled",
       ended |-> IF failed THEN "catch" ELSE "try"]

\* processQuestion after its await, lines 114-130, for the slot it runs on:
\* the slot it leaves and how its promise settles.
continuation(slot, outcome) ==
  LET parsed == JSONparse(cleanJsonStr(outcome.text))
      failed == outcome.kind # "response" \/ ~parsed.ok
      err == IF outcome.kind = "response"
               THEN ThrowError(parsed.message) ELSE outcome
      done == IF failed
                THEN [slot EXCEPT !.error = Message(caughtMessage(err))]
                ELSE [slot EXCEPT !.result = parsed.data, !.error = NoError]
  IN  [slot |-> [done EXCEPT !.isLoading = FALSE],
       state |-> "fulfilled",
       ended |-> IF failed THEN "catch" ELSE "try"]

\* A call that has ended: what its run held (its credential, its prompt,
\* its copy of the array) is unreachable; the state of its promise stays,
\* with the way the run ended ("try": line 123 was reached, "catch": line
\* 126 was).
Ended(state, ended) ==
  [index |-> 0, key |-> EmptyString, prompt |-> EmptyString,
   newQuestions |-> [i \in Slots |-> QuestionResult(EmptyString)],
   state |-> state, ended |-> ended]

\* The state of a promise: 0 is a promise that is already fulfilled.
promiseState(cs, p) == IF p = 0 THEN "fulfilled" ELSE cs[p].state

\* Promise.all, line 154: rejected as soon as one promise is rejected,
\* fulfilled once all are fulfilled.
PromiseAll(cs, promises) ==
  IF \E n \in 1..Len(promises) : promiseState(cs, promises[n]) = "rejected"
    THEN "rejected"
  ELSE IF \A n \in 1..Len(promises) : promiseState(cs, promises[n]) = "fulfilled"
    THEN "fulfilled"
  ELSE "pending"

\* The map of lines 147-152 without the test of line 148.
RECURSIVE mapQuestionsUnfiltered(_, _, _)
mapQuestionsUnfiltered(w, selected, index) ==
  IF index = NumSlots THEN w
  ELSE LET r == processQuestion(w, selected, index)
       IN  mapQuestionsUnfiltered([questions |-> r.questions, calls |-> r.calls,
                                   promises |-> Append(w.promises, r.promise)],
                                  selected, index + 1)

\* The map of lines 147-152, from slot index on.
RECURSIVE mapQuestions(_, _, _)
mapQuestions(w, selected, index) ==
  IF index = NumSlots THEN w
  ELSE IF trim(w.questions[index].question) # EmptyString
    THEN LET r == processQuestion(w, selected, index)
         IN  mapQuestions([questions |-> r.questions, calls |-> r.calls,
                           promises |-> Append(w.promises, r.promise)],
                          selected, index + 1)
    ELSE mapQuestions([w EXCEPT !.promises = Append(@, 0)], selected, index + 1)

validQuestions(qs) == {i \in Slots : trim(qs[i].question) # EmptyString}

\* Lines 133-154 without the test of the credential (lines 135-138).
handleSubmitAllNoKeyTest(qs, cs, ss, selected) ==
  IF Cardinality(validQuestions(qs)) = 0
    THEN [questions |-> qs, calls |-> cs, submits |-> ss,
          branch |-> "alertQuestion"]
  ELSE LET r == mapQuestions([questions |-> qs, calls |-> cs,
                              promises |-> << >>], selected, 0)
       IN  [questions |-> r.questions, calls |-> r.calls,
            submits |-> Append(ss, [promises |-> r.promises,
                                    state |-> PromiseAll(r.calls, r.promises)]),
            branch |-> "started"]

\* handleSubmitAll up to its await, lines 133-154: the two alerts, or the
\* runs it starts and the join it waits on.
handleSubmitAll(qs, cs, ss, selected) ==
  IF trim(selected) = EmptyString
    THEN [questions |-> qs, calls |-> cs, submits |-> ss,
          branch |-> "alertApiKey"]
  ELSE IF Cardinality(validQuestions(qs)) = 0
    THEN [questions |-> qs, calls |-> cs, submits |-> ss,
          branch |-> "alertQuestion"]
  ELSE LET r == mapQuestions([questions |-> qs, calls |-> cs,
                              promises |-> << >>], selected, 0)
       IN  [questions |-> r.questions, calls |-> r.calls,
            submits |-> Append(ss, [promises |-> r.promises,
                                    state |-> PromiseAll(r.calls, r.promises)]),
            branch |-> "started"]

\* The controls as rendered: the per-slot button of lines 243-252, the
\* submit button of lines 288-294, the delete button of lines 184-192.
\* The per-slot button without its disabled attribute.
runOneEnabledWhileLoading(slot) == trim(slot.question) # EmptyString
runOneEnabled(slot) == trim(slot.question) # EmptyString /\ ~slot.isLoading
\* The submit button without its disabled attribute.
submitAlwaysEnabled(qs) == TRUE
submitEnabled(qs) == ~(\E i \in Slots : qs[i].isLoading)
deleteEnabled(keys, selected) == Len(keys) > 0 /\ selected # EmptyString

---------------------------------------------------------------------------
(* The state machine *)

Init ==
  /\ apiKeys = << >>
  /\ selectedApiKey = EmptyString
  /\ questions = [i \in Slots |->
                    QuestionResult(IF i = 0 THEN InitialQuestion
                                   ELSE EmptyString)]
  /\ calls = << >>
  /\ submits = << >>
  /\ edits = 0
  /\ lastOp = Op("init", 0, "")

\* Line 216: the add button, clicked with newApiKey typed into the input of
\* lines 206-212.  The input buffer and the visibility of the form are not
\* part of the model.
AddApiKey(newApiKey) ==
  /\ LET r == handleAddApiKey(apiKeys, selectedApiKey, newApiKey)
     IN  /\ apiKeys' = r.apiKeys
         /\ selectedApiKey' = r.selectedApiKey
         /\ lastOp' = Op("handleAddApiKey", 0,
                         IF r.added THEN "added" ELSE "ignored")
  /\ UNCHANGED <<questions, calls, submits, edits>>

\* Lines 171-182: the select lists the empty option and every stored key.
SelectApiKey(key) ==
  /\ Len(apiKeys) > 0
  /\ key = EmptyString \/ includes(apiKeys, key)
  /\ key # selectedApiKey
  /\ selectedApiKey' = key
  /\ lastOp' = Op("setSelectedApiKey", 0, "")
  /\ UNCHANGED <<apiKeys, questions, calls, submits, edits>>

\* Line 187.
DeleteApiKey ==
  /\ deleteEnabled(apiKeys, selectedApiKey)
  /\ LET r == handleDeleteApiKey(apiKeys, selectedApiKey, selectedApiKey)
     IN  /\ apiKeys' = r.apiKeys
         /\ selectedApiKey' = r.selectedApiKey
  /\ lastOp' = Op("handleDeleteApiKey", 0, "")
  /\ UNCHANGED <<questions, calls, submits, edits>>

\* Line 261 with the prompt of the slot's call in flight built from the
\* text as it is now.
EditQuestionLive(index, text) ==
  /\ index \in EditedSlots
  /\ Len(calls) + edits < MaxOps
  /\ edits' = edits + 1
  /\ text # questions[index].question
  /\ questions' = updateQuestion(questions, index, text)
  /\ calls' = [id \in 1..Len(calls) |->
                 IF calls[id].state = "pending" /\ calls[id].index = index
                   THEN [calls[id] EXCEPT !.prompt = FinalPrompt(text)]
                   ELSE calls[id]]
  /\ lastOp' = Op("updateQuestion", index, "")
  /\ UNCHANGED <<apiKeys, selectedApiKey, submits>>

\* Line 261.
EditQuestion(index, text) ==
  /\ index \in EditedSlots
  /\ Len(calls) + edits < MaxOps
  /\ edits' = edits + 1
  /\ text # questions[index].question
  /\ questions' = updateQuestion(questions, index, text)
  /\ lastOp' = Op("updateQuestion", index, "")
  /\ UNCHANGED <<apiKeys, selectedApiKey, calls, submits>>

\* Line 246.
RunOne(index) ==
  /\ runOneEnabled(questions[index])
  /\ LET r == processQuestion([questions |-> questions, calls |-> calls],
                              selectedApiKey, index)
     IN  /\ Len(r.calls) + edits <= MaxOps
         /\ questions' = r.questions
         /\ calls' = r.calls
         /\ lastOp' = Op("processQuestion", index,
                         IF r.promise = 0 THEN "rejected" ELSE "started")
  /\ UNCHANGED <<apiKeys, selectedApiKey, submits, edits>>

\* The submit button, lines 165 and 288-294.
SubmitAll ==
  /\ submitEnabled(questions)
  /\ LET r == handleSubmitAll(questions, calls, submits, selectedApiKey)
     IN  /\ Len(r.calls) + edits <= MaxOps
         /\ questions' = r.questions
         /\ calls' = r.calls
         /\ submits' = r.submits
         /\ lastOp' = Op("handleSubmitAll", 0, r.branch)
  /\ UNCHANGED <<apiKeys, selectedApiKey, edits>>

\* The await of line 113 ends for call id with this outcome, and
\* processQuestion runs to its end (lines 114-130); the promises that were
\* waiting on it settle in the same turn of the event loop (line 154).
ExtractorReturn(id, outcome) ==
  /\ calls[id].state = "pending"
  /\ outcome \in UpstreamOutcomes(requestKey(calls[id].key, selectedApiKey))
  /\ LET index == calls[id].index
         newQuestions == [i \in Slots |->
                            element(calls[id].newQuestions, questions, i)]
         r == continuation(newQuestions[index], outcome)
         cs == [calls EXCEPT ![id] = Ended(r.state, r.ended)]
     IN  /\ questions' = [newQuestions EXCEPT ![index] = r.slot]
         /\ calls' = cs
         /\ submits' = [n \in 1..Len(submits) |->
                          IF submits[n].state = "pending"
                            THEN [submits[n] EXCEPT
                                    !.state = PromiseAll(cs, submits[n].promises)]
                            ELSE submits[n]]
         /\ lastOp' = Op("continuation", index, r.ended)
  /\ UNCHANGED <<apiKeys, selectedApiKey, edits>>

Return ==
  \E id \in 1..Len(calls), outcome \in AllOutcomes :
    ExtractorReturn(id, outcome)

Next ==
  \/ \E raw \in RawKeys : AddApiKey(raw)
  \/ \E key \in RawKeys : SelectApiKey(key)
  \/ DeleteApiKey
  \/ \E index \in Slots, text \in QuestionTexts : EditQuestion(index, text)
  \/ \E index \in Slots : RunOne(index)
  \/ SubmitAll
  \/ Return

Spec == Init /\ [][Next]_vars

\* Every call to the service returns or fails in the end.
FairSpec == Spec /\ WF_vars(Return)

\* The credential handlers on their own, with three credentials.
KeyNext ==
  \/ \E raw \in KeyInputs : AddApiKey(raw)
  \/ \E key \in KeyInputs : SelectApiKey(key)
  \/ DeleteApiKey

KeySpec == Init /\ [][KeyNext]_vars

\* The runs made with the accepted credential, their calls ending with
\* every outcome of ParseOutcomes.
ParseReturn ==
  \E id \in 1..Len(calls), outcome \in ParseOutcomes :
    ExtractorReturn(id, outcome)

ParseNext ==
  \/ \E raw \in AcceptedKeys : AddApiKey(raw)
  \/ \E index \in Slots, text \in PromptTexts : EditQuestion(index, text)
  \/ \E index \in Slots : RunOne(index)
  \/ ParseReturn

ParseSpec == Init /\ [][ParseNext]_vars

---------------------------------------------------------------------------
(* The properties *)

hasResult(slot) == slot.result # NoResult
hasError(slot) == slot.error # NoError
filled(qs) == {i \in Slots : trim(qs[i].question) # EmptyString}
pending(cs) == {id \in 1..Len(cs) : cs[id].state = "pending"}
\* The calls that end in this step.
ending(id) == calls[id].state = "pending" /\ calls'[id].state # "pending"

\* C1: in every reachable state no slot has a result and an error at once.
C1_ResultErrorExclusive ==
  \A i \in Slots : ~(hasResult(questions[i]) /\ hasError(questions[i]))

\* C2: a run that passed its precondition check ends with isLoading false
\* and, when the call succeeded, with a result and no error, when it failed,
\* with an error and no result.
C2_RunOneOutcome ==
  [][\A id \in 1..Len(calls) :
       ending(id) =>
         LET slot == questions'[calls[id].index]
         IN  /\ ~slot.isLoading
             /\ calls'[id].ended = "try" => hasResult(slot) /\ ~hasError(slot)
             /\ calls'[id].ended = "catch" => hasError(slot) /\ ~hasResult(slot)
    ]_vars

\* C3: a run of slot i started with an empty active credential or an empty
\* trimmed question makes no call to the service and leaves the slot with
\* isLoading false and the credential-and-question-required message.
C3_RejectedRunOne ==
  [][(/\ lastOp'.op = "processQuestion"
      /\ \/ trim(selectedApiKey) = EmptyString
         \/ trim(questions[lastOp'.index].question) = EmptyString)
       => /\ calls' = calls
          /\ ~questions'[lastOp'.index].isLoading
          /\ questions'[lastOp'.index].error = Message(ValidationMessage)
    ]_vars

\* C3, its case: the per-slot button was clicked with no credential
\* selected, after a call had been made.
C3_Witness ==
  /\ lastOp.op = "processQuestion"
  /\ selectedApiKey = EmptyString
  /\ Len(calls) > 0
  /\ questions[lastOp.index].error = Message(ValidationMessage)
  /\ ~questions[lastOp.index].isLoading

\* C4: a run-all with a credential and a non-empty question starts exactly
\* one call for every slot whose trimmed question is non-empty and none for
\* any other slot, and neither the start nor the end of one of its runs
\* changes a slot it skipped.
C4_RunAllStarts ==
  [][/\ (/\ lastOp'.op = "handleSubmitAll"
          /\ trim(selectedApiKey) # EmptyString
          /\ filled(questions) # {})
         => /\ \A id \in 1..Len(calls) : calls'[id] = calls[id]
            /\ \A i \in Slots :
                 Cardinality({id \in (Len(calls) + 1)..Len(calls') :
                                calls'[id].index = i
                                  /\ calls'[id].state = "pending"})
                   = IF i \in filled(questions) THEN 1 ELSE 0
            /\ Len(calls') = Len(calls) + Cardinality(filled(questions))
            /\ \A i \in Slots \ filled(questions) :
                 questions'[i] = questions[i]
     /\ \A n \in 1..Len(submits), id \in 1..Len(calls) :
          (/\ ending(id)
           /\ \E k \in 1..NumSlots : submits[n].promises[k] = id)
          => \A i \in Slots :
               submits[n].promises[i + 1] = 0 => questions'[i] = questions[i]
    ]_vars

\* C4, its case: the run-all has started the runs of slots 0 and 2 and has
\* skipped slot 1.
C4_Witness ==
  /\ lastOp.op = "handleSubmitAll"
  /\ pending(calls) = {1, 2}
  /\ calls[1].index = 0 /\ calls[2].index = 2
  /\ questions[0].isLoading /\ questions[2].isLoading
  /\ questions[1] = QuestionResult(EmptyString)

\* The state of the n-th run-all of the run, "none" before it has started.
joinState(n) == IF n <= Len(submits) THEN submits[n].state ELSE "none"

\* C5: the join of a run-all is settled only when every run it started has
\* settled, is fulfilled as soon as they all have, whatever their outcomes,
\* is never rejected, and is fulfilled in the end when every call returns.
C5_Join ==
  /\ [](\A n \in 1..Len(submits) :
          LET waiting == {k \in 1..NumSlots :
                            /\ submits[n].promises[k] # 0
                            /\ calls[submits[n].promises[k]].state = "pending"}
          IN  /\ submits[n].state # "rejected"
              /\ submits[n].state = "fulfilled" <=> waiting = {})
  /\ (\E n \in 1..MaxOps : joinState(n) = "pending")
       ~> (\A n \in 1..MaxOps : joinState(n) \in {"none", "fulfilled"})

\* C5, its case: a run-all that started two runs is fulfilled, one of its
\* runs having failed and the other succeeded.
C5_Witness ==
  \E n \in 1..Len(submits) :
    /\ submits[n].state = "fulfilled"
    /\ \E j, k \in 1..NumSlots :
         /\ submits[n].promises[j] # 0
         /\ submits[n].promises[k] # 0
         /\ calls[submits[n].promises[j]].ended = "try"
         /\ calls[submits[n].promises[k]].ended = "catch"

\* C6: a run-all with no active credential, or with no non-empty trimmed
\* question, makes no call to the service and leaves the five slots as they
\* were.
C6_RunAllRejected ==
  [][(/\ lastOp'.op = "handleSubmitAll"
      /\ \/ trim(selectedApiKey) = EmptyString
         \/ filled(questions) = {})
       => /\ calls' = calls
          /\ questions' = questions
          /\ submits' = submits
    ]_vars

\* C6, its case: the run-all was refused for want of a credential, with a
\* question to run and the result of an earlier run in a slot.
C6_Witness ==
  /\ lastOp.op = "handleSubmitAll"
  /\ selectedApiKey = EmptyString
  /\ filled(questions) # {}
  /\ \E i \in Slots : hasResult(questions[i])
  /\ \A i \in Slots : ~hasError(questions[i])

\* C7: no step of a run of slot i, its start or its end, changes another
\* slot j: what the run of slot j has written is still there when the run of
\* slot i writes its state back.
C7_SlotIsolation ==
  [][lastOp'.op \in {"processQuestion", "continuation"}
       => \A j \in Slots \ {lastOp'.index} : questions'[j] = questions[j]
    ]_vars

\* C7, its case: the run of one slot has ended while the run of another
\* slot, started while the first was in flight, is still in flight.
C7_Witness ==
  /\ lastOp.op = "continuation"
  /\ ~questions[lastOp.index].isLoading
  /\ \E id \in pending(calls) :
       /\ calls[id].index # lastOp.index
       /\ calls[id].newQuestions[lastOp.index].isLoading
       /\ questions[calls[id].index].isLoading

\* C8: a call is made with the credential that was active when its run
\* started, a change of the active credential while the call is in flight
\* does not change it, and the outcome written to the slot is the one the
\* service gives for that credential.
C8_CapturedCredential ==
  [][/\ \A id \in (Len(calls) + 1)..Len(calls') :
          calls'[id].key = selectedApiKey
     /\ \A id \in 1..Len(calls) :
          calls'[id].state = "pending" => calls'[id].key = calls[id].key
     /\ \A id \in 1..Len(calls) :
          ending(id) =>
            (questions'[calls[id].index].error = Message(AuthErrorMessage)
               <=> calls[id].key \notin AcceptedKeys)
    ]_vars

\* C8, its case: a call made with the rejected credential has ended with
\* the rejection after the accepted credential was selected.
C8_Witness ==
  /\ lastOp.op = "continuation"
  /\ questions[lastOp.index].error = Message(AuthErrorMessage)
  /\ selectedApiKey \in AcceptedKeys

\* C9: a run-all starts only when no slot is loading: no call and no
\* earlier run-all is then in flight.
C9_RunAllDisabledWhileLoading ==
  [][lastOp'.op = "handleSubmitAll"
       => /\ \A i \in Slots : ~questions[i].isLoading
          /\ pending(calls) = {}
          /\ \A n \in 1..Len(submits) : submits[n].state # "pending"
    ]_vars

\* C9, its case: a second run-all is in flight, started after the first
\* had been fulfilled.
C9_Witness ==
  /\ Len(submits) = 2
  /\ submits[1].state = "fulfilled"
  /\ submits[2].state = "pending"
  /\ \E i \in Slots : questions[i].isLoading

noDuplicates(seq) ==
  \A m, n \in 1..Len(seq) : seq[m] = seq[n] => m = n

\* C10: the credential sequence never holds a value twice; an add whose
\* trimmed input is empty or already present changes neither the sequence
\* nor the active selection, and any other add appends the trimmed input
\* and selects it.
C10_AddCredential ==
  /\ noDuplicates(apiKeys)
  /\ \A raw \in RawKeys :
       LET value == trim(raw)
       IN  IF value = EmptyString \/ includes(apiKeys, value)
             THEN ~ENABLED (/\ AddApiKey(raw)
                            /\ ~(/\ apiKeys' = apiKeys
                                 /\ selectedApiKey' = selectedApiKey))
             ELSE ~ENABLED (/\ AddApiKey(raw)
                            /\ ~(/\ apiKeys' = Append(apiKeys, value)
                                 /\ selectedApiKey' = value))

\* C10, its case: two credentials are stored in the order they were added
\* in, and the last add, of a stored credential, was ignored.
C10_Witness ==
  /\ lastOp.op = "handleAddApiKey"
  /\ lastOp.branch = "ignored"
  /\ apiKeys = << <<"k2">>, <<"k1">> >>
  /\ selectedApiKey = <<"k2">>

elements(seq) == {seq[n] : n \in 1..Len(seq)}

\* t holds the values of s other than x, once each, in the order of s.
removed(s, t, x) ==
  /\ elements(t) = elements(s) \ {x}
  /\ Len(t) = Cardinality(elements(t))
  /\ \A m, n \in 1..Len(t) :
       m < n => \E a, b \in 1..Len(s) : a < b /\ s[a] = t[m] /\ s[b] = t[n]

\* C11: deleting a stored credential removes it from the sequence and keeps
\* the order of the rest; when it was the active selection the selection
\* becomes the first remaining credential, or empty when none remains, and
\* otherwise the selection is unchanged.
C11_DeleteCredential ==
  /\ \A target \in elements(apiKeys) :
       LET r == handleDeleteApiKey(apiKeys, selectedApiKey, target)
       IN  /\ removed(apiKeys, r.apiKeys, target)
           /\ target = selectedApiKey =>
                r.selectedApiKey = IF r.apiKeys = << >> THEN EmptyString
                                   ELSE r.apiKeys[1]
           /\ target # selectedApiKey => r.selectedApiKey = selectedApiKey
  /\ ~ENABLED (/\ DeleteApiKey
               /\ ~(/\ removed(apiKeys, apiKeys', selectedApiKey)
                    /\ selectedApiKey' = IF apiKeys' = << >> THEN EmptyString
                                         ELSE apiKeys'[1]))

\* C11, its case: the active credential, first or second of three, was
\* deleted and the first of the two that remain is selected.
C11_Witness ==
  /\ lastOp.op = "handleDeleteApiKey"
  /\ Len(apiKeys) = 2
  /\ selectedApiKey = apiKeys[1]

\* A response text without the fence it starts with (tagged or not) and
\* without the fence it ends with, and without the whitespace around them.
leadingFence(s) == Len(s) >= 1 /\ s[1] = FENCE
trailingFence(s) == Len(s) >= 1 /\ s[Len(s)] = FENCE
withoutLeading(s) ==
  IF ~leadingFence(s) THEN s
  ELSE IF Len(s) >= 2 /\ s[2] = TAG THEN SubSeq(s, 3, Len(s))
  ELSE Tail(s)
withoutTrailing(s) ==
  IF trailingFence(s) THEN SubSeq(s, 1, Len(s) - 1) ELSE s
unfenced(text) == trim(withoutTrailing(withoutLeading(trim(text))))

\* The text is one JSON value once its fences are removed.
validJson(text) == Len(unfenced(text)) = 1 /\ unfenced(text)[1] \in JsonTokens
\* The text is the six-field object, within a leading and a trailing fence
\* or within none.
fencedObject(text) ==
  /\ unfenced(text) = <<"OBJ6">>
  /\ leadingFence(trim(text)) <=> trailingFence(trim(text))
malformed(text) == ~validJson(text)
wrongShape(text) == validJson(text) /\ unfenced(text) # <<"OBJ6">>

BookInfo == [t |-> "object", fields |-> BookInfoFields]
\* The slot of call id after the step that ends it.
slotAfter(id) == questions'[calls[id].index]

\* C12: a call that ends with the six-field object as its response text,
\* within a leading fence (tagged or untagged) and a trailing fence or within
\* no fence, leaves the slot with the decoded record as result and no error.
C12_FenceRemoval ==
  [][\A id \in 1..Len(calls), text \in ParseTexts :
       (fencedObject(text) /\ ExtractorReturn(id, Response(text)))
         => /\ slotAfter(id).result = BookInfo
            /\ slotAfter(id).error = NoError
            /\ ~slotAfter(id).isLoading
    ]_vars

\* C13: a call that ends with a response text that is no JSON value once
\* its fences are removed leaves the slot with an error and no result.
C13_MalformedResponse ==
  [][\A id \in 1..Len(calls), text \in ParseTexts :
       (malformed(text) /\ ExtractorReturn(id, Response(text)))
         => /\ hasError(slotAfter(id))
            /\ ~hasResult(slotAfter(id))
            /\ ~slotAfter(id).isLoading
    ]_vars

\* C13, its case: a run has ended in the catch block with the message of
\* the SyntaxError of JSON.parse and without a result.
C13_Witness ==
  /\ lastOp.op = "continuation"
  /\ lastOp.branch = "catch"
  /\ questions[lastOp.index].error = Message(SyntaxErrorMessage)
  /\ ~hasResult(questions[lastOp.index])
  /\ ~questions[lastOp.index].isLoading

\* C14: a call that ends with a response text that is a JSON value other
\* than the six-field object leaves the slot with an error and no result,
\* and the result of a slot, when present, is a record of the six fields.
C14_ShapeChecked ==
  [][/\ \A id \in 1..Len(calls), text \in ParseTexts :
          (wrongShape(text) /\ ExtractorReturn(id, Response(text)))
            => /\ hasError(slotAfter(id))
               /\ ~hasResult(slotAfter(id))
     /\ \A i \in Slots :
          hasResult(questions'[i]) => questions'[i].result = BookInfo
    ]_vars

\* The calls of slot i that are in flight.
inFlight(i) == {id \in pending(calls) : calls[id].index = i}

\* C15, as claimed: while a run of slot i is in flight, a second run of
\* slot i can be started.
C15_OverlapUnguarded ==
  \A i \in Slots :
    (/\ inFlight(i) # {}
     /\ trim(questions[i].question) # EmptyString
     /\ Len(calls) + edits < MaxOps)
      => ENABLED RunOne(i)

\* C15, as amended: while a run of slot i is in flight the slot is loading
\* and neither a second run of slot i nor a run-all can be started, so at
\* most one call of a slot is in flight; a slot is loading only while its
\* call is in flight.
C15_OverlapGuarded ==
  \A i \in Slots :
    /\ inFlight(i) # {}
         => /\ Cardinality(inFlight(i)) = 1
            /\ questions[i].isLoading
            /\ ~ENABLED RunOne(i)
            /\ ~ENABLED SubmitAll
    /\ questions[i].isLoading => inFlight(i) # {}

\* C15, its case: a run of a slot is in flight, the slot's question is not
\* blank, a credential is selected and the model may start another call.
C15_Witness ==
  \E i \in Slots :
    /\ inFlight(i) # {}
    /\ trim(questions[i].question) # EmptyString
    /\ trim(selectedApiKey) # EmptyString
    /\ Len(calls) + edits < MaxOps

\* C16: the step that starts a run of a slot, from its button or from a
\* run-all, with a credential and a question that are not blank, makes the
\* call and leaves the slot loading with no result and no error; in every
\* state a loading slot has neither a result nor an error.
C16_StartClears ==
  [][/\ (/\ lastOp'.op = "processQuestion"
          /\ trim(selectedApiKey) # EmptyString
          /\ trim(questions[lastOp'.index].question) # EmptyString)
         => /\ questions'[lastOp'.index] =
                 [question |-> questions[lastOp'.index].question,
                  result |-> NoResult, error |-> NoError, isLoading |-> TRUE]
            /\ Len(calls') = Len(calls) + 1
            /\ calls'[Len(calls')].index = lastOp'.index
     /\ (/\ lastOp'.op = "handleSubmitAll"
          /\ trim(selectedApiKey) # EmptyString)
         => \A i \in filled(questions) :
              questions'[i] =
                [question |-> questions[i].question,
                 result |-> NoResult, error |-> NoError, isLoading |-> TRUE]
     /\ \A i \in Slots :
          questions'[i].isLoading
            => ~hasResult(questions'[i]) /\ ~hasError(questions'[i])
    ]_vars

\* C16, its case: slot 0, the only slot with a question, is run a second
\* time after its first run had ended with an error, and is loading with
\* neither result nor error.
C16_Witness ==
  /\ lastOp = Op("processQuestion", 0, "started")
  /\ edits = 0
  /\ Len(calls) = 2
  /\ calls[1].ended = "catch"
  /\ calls[2].state = "pending"
  /\ questions[0].isLoading
  /\ ~hasResult(questions[0]) /\ ~hasError(questions[0])

\* C17: a call that ends with a failure, thrown by the service or by the
\* decoding, ends in the catch block with its promise fulfilled and leaves
\* the slot not loading, with the failure's message as error, or with the
\* fallback literal when the failure has no message: the error is present
\* and not empty.
C17_FailureRecorded ==
  [][/\ \A id \in 1..Len(calls) :
          ending(id) =>
            /\ calls'[id].state = "fulfilled"
            /\ calls'[id].ended = "catch"
                 => /\ hasError(slotAfter(id))
                    /\ slotAfter(id).error.v # ""
                    /\ ~slotAfter(id).isLoading
     /\ \A id \in 1..Len(calls), outcome \in ParseOutcomes :
          (outcome.kind # "response" /\ ExtractorReturn(id, outcome))
            => slotAfter(id).error =
                 Message(IF outcome.message # "" THEN outcome.message
                         ELSE FallbackMessage)
    ]_vars

\* C18: an edit of the question of a slot changes that slot's question and
\* nothing else: not the slot's result, error or isLoading, not another
\* slot, not the credentials, not a call in flight; the slots are always the
\* five slots 0..4.
C18_SetQuestionFrame ==
  [][/\ lastOp'.op = "updateQuestion"
         => /\ \A i \in Slots \ {lastOp'.index} : questions'[i] = questions[i]
            /\ questions'[lastOp'.index].result = questions[lastOp'.index].result
            /\ questions'[lastOp'.index].error = questions[lastOp'.index].error
            /\ questions'[lastOp'.index].isLoading
                 = questions[lastOp'.index].isLoading
            /\ questions'[lastOp'.index].question
                 # questions[lastOp'.index].question
            /\ apiKeys' = apiKeys /\ selectedApiKey' = selectedApiKey
            /\ calls' = calls /\ submits' = submits
     /\ DOMAIN questions' = 0..4
    ]_vars

\* C18, its case: the question of a slot was edited to a blank text while
\* the slot's run was in flight, and the slot is still loading.
C18_Witness ==
  /\ lastOp.op = "updateQuestion"
  /\ questions[lastOp.index].question = <<WS>>
  /\ questions[lastOp.index].isLoading
  /\ \E id \in pending(calls) : calls[id].index = lastOp.index

\* C19: in every reachable state the active selection is empty or one of
\* the stored credentials.
C19_SelectionListed ==
  selectedApiKey = EmptyString \/ selectedApiKey \in elements(apiKeys)

\* C19, its case: the only stored credential, the active one, was deleted
\* while a call made with it was in flight, and nothing is selected.
C19_Witness ==
  /\ lastOp.op = "handleDeleteApiKey"
  /\ apiKeys = << >>
  /\ selectedApiKey = EmptyString
  /\ \E id \in pending(calls) : calls[id].key # EmptyString

\* C20: the prompt of a call is built from the slot's question as it is
\* when the run starts; no step changes the prompt of a call in flight; the
\* end of a call writes its outcome to the slot and keeps the question the
\* slot has then, whether or not it is the question the call was made with.
C20_CapturedQuestion ==
  [][/\ \A id \in (Len(calls) + 1)..Len(calls') :
          calls'[id].prompt =
            <<"PROMPT_HEAD">>
              \o replacement(questions[calls'[id].index].question)
              \o <<"PROMPT_TAIL">>
     /\ \A id \in 1..Len(calls) :
          calls'[id].state = "pending"
            => /\ calls'[id].prompt = calls[id].prompt
               /\ calls'[id].index = calls[id].index
     /\ \A id \in 1..Len(calls) :
          ending(id) =>
            /\ slotAfter(id).question = questions[calls[id].index].question
            /\ ~slotAfter(id).isLoading
            /\ calls'[id].ended = "catch" => hasError(slotAfter(id))
            /\ calls'[id].ended = "try"
                 => /\ ~hasError(slotAfter(id))
                    /\ slotAfter(id).result \in {JsonValue(tok) : tok \in JsonTokens}
    ]_vars

\* C20, its case: the one call made, of slot 0, has ended with a result,
\* and the question of slot 0, edited while the call was in flight, is
\* blank.
C20_Witness ==
  /\ lastOp = Op("continuation", 0, "try")
  /\ Len(calls) = 1
  /\ trim(questions[0].question) = EmptyString
  /\ hasResult(questions[0])

====
